---- MODULE Spec2Model ----
(***************************************************************************)
(* Model of tools/xcframework_selector/xcframework_selector.py: the triple *)
(* parser (Triple), the manifest entry (Library), the selection loop of    *)
(* _main and the command-line entry point.                                  *)
(*                                                                         *)
(* Strings the program inspects character by character (the triple and its *)
(* segments, architecture and platform names) are sequences of one-        *)
(* character strings.  Strings the program only passes around or compares  *)
(* whole (path components, the format version, the platform variant) are   *)
(* TLA+ strings.  A path is the sequence of its "/"-separated components.  *)
(* A Python dict is a record whose DOMAIN is the set of keys present.      *)
(***************************************************************************)
EXTENDS Integers, Sequences, FiniteSets, TLC

VARIABLES pc, argv, plistFile, out, out0, triple, found, idx, examined,
          copies, err, exitCode, runs

vars == <<pc, argv, plistFile, out, out0, triple, found, idx, examined,
          copies, err, exitCode, runs>>

---------------------------------------------------------------------------
(* Bounds *)

MaxSegs == 5

MaxLibs == 3

MaxArgs == 4

MaxRuns == 2

---------------------------------------------------------------------------
(* Character strings *)

S_arm64 == <<"a","r","m","6","4">>

S_arm64e == <<"a","r","m","6","4","e">>

S_i386 == <<"i","3","8","6">>

S_x86_64 == <<"x","8","6","_","6","4">>

S_armv7s == <<"a","r","m","v","7","s">>

S_armv7k == <<"a","r","m","v","7","k">>

S_mips == <<"m","i","p","s">>

S_apple == <<"a","p","p","l","e">>

S_ios == <<"i","o","s">>

S_ios11 == <<"i","o","s","1","1",".","0">>

S_tvos == <<"t","v","o","s">>

S_watchos == <<"w","a","t","c","h","o","s">>

S_macosx == <<"m","a","c","o","s","x">>

S_linux == <<"l","i","n","u","x">>

S_simulator == <<"s","i","m","u","l","a","t","o","r">>

_VALID_PLATFORMS == {S_watchos, S_ios, S_tvos, S_macosx}

_VALID_ARCHS == {S_i386, S_arm64, S_arm64e, S_x86_64, S_armv7s, S_armv7k}

(* the characters matched by the class [a-z] *)
LowerAscii ==
  {"a","b","c","d","e","f","g","h","i","j","k","l","m",
   "n","o","p","q","r","s","t","u","v","w","x","y","z"}

---------------------------------------------------------------------------
(* Triple.__init__ *)

RECURSIVE SplitAcc(_, _, _, _)
(* str.split("-") scanning from position i: cur is the segment being read, *)
(* acc the segments already closed.  Empty segments are kept.              *)
SplitAcc(s, i, cur, acc) ==
  IF i > Len(s) THEN Append(acc, cur)
  ELSE IF s[i] = "-" THEN SplitAcc(s, i + 1, <<>>, Append(acc, cur))
  ELSE SplitAcc(s, i + 1, Append(cur, s[i]), acc)

Split(s) == SplitAcc(s, 1, <<>>, <<>>)

RECURSIVE RunEnd(_, _)
(* first position at or after i that holds a character of [a-z], or       *)
(* Len(s) + 1: the end of the maximal run matched by [^a-z]+ starting at i *)
RunEnd(s, i) ==
  IF i > Len(s) \/ s[i] \in LowerAscii THEN i ELSE RunEnd(s, i + 1)

RECURSIVE ReSubFrom(_, _)
(* re.sub(r"[^a-z]+", "", s) from position i: every maximal run of         *)
(* characters outside a-z is replaced by the empty string                  *)
ReSubFrom(s, i) ==
  IF i > Len(s) THEN <<>>
  ELSE IF s[i] \in LowerAscii THEN <<s[i]>> \o ReSubFrom(s, i + 1)
  ELSE ReSubFrom(s, RunEnd(s, i))

IsNotDigit(c) == c \notin {"0","1","2","3","4","5","6","7","8","9"}

(* variant: only the digits are removed, as by [0-9]+ *)
ReSubDigits(s) == SelectSeq(s, IsNotDigit)

ReSubNonLower(s) == ReSubFrom(s, 1)

NoTriple ==
  [err |-> "unset", arch |-> <<>>, platform |-> <<>>, is_simulator |-> FALSE]

(* parts[-1] == "simulator" *)
LastIsSimulator(parts) == parts[Len(parts)] = S_simulator

(* lines 45-47: parts[1], replaced by parts[2] when it is "apple"; the     *)
(* index 2 does not exist in a two-element list (IndexError)               *)
PlatformIndex(parts) == IF parts[2] = S_apple THEN 3 ELSE 2

(* The outcome of Triple(triple): err is "None" when the object is built,  *)
(* otherwise the failure that leaves the constructor.                      *)
TripleInit(s) ==
  LET parts == Split(s) IN
  IF Len(parts) \notin {2, 3, 4}
  THEN [NoTriple EXCEPT !.err = "MalformedTripleError"]
  ELSE IF parts[1] \notin _VALID_ARCHS
  THEN [NoTriple EXCEPT !.err = "UnsupportedArchitectureError"]
  ELSE IF PlatformIndex(parts) > Len(parts)
  THEN [NoTriple EXCEPT !.err = "IndexError"]
  ELSE LET platform == ReSubNonLower(parts[PlatformIndex(parts)]) IN
       IF platform \notin _VALID_PLATFORMS
       THEN [NoTriple EXCEPT !.err = "UnsupportedPlatformError"]
       ELSE [err |-> "None", arch |-> parts[1], platform |-> platform,
             is_simulator |-> LastIsSimulator(parts)]

---------------------------------------------------------------------------
(* Library *)

RequiredKeys ==
  {"LibraryPath", "LibraryIdentifier", "SupportedArchitectures",
   "SupportedPlatform"}

(* a subscript plist_definition[k] of Library.__init__ raises KeyError     *)
HasRequiredKeys(definition) == RequiredKeys \subseteq DOMAIN definition

(* variant: any SupportedPlatformVariant marks a simulator build *)
VariantIsPresent(definition) == "SupportedPlatformVariant" \in DOMAIN definition

(* plist_definition.get("SupportedPlatformVariant") == "simulator"         *)
VariantIsSimulator(definition) ==
  IF "SupportedPlatformVariant" \in DOMAIN definition
  THEN definition.SupportedPlatformVariant = "simulator"
  ELSE FALSE

(* variant: SupportedPlatform is read with .get, a missing one is no error *)
LibraryInitLenient(root, definition) ==
  IF ~({"LibraryPath", "LibraryIdentifier", "SupportedArchitectures"}
         \subseteq DOMAIN definition)
  THEN [err |-> "KeyError"]
  ELSE LET framework_path ==
             root \o <<definition.LibraryIdentifier, definition.LibraryPath>>
       IN [err |-> "None",
           name |-> definition.LibraryPath.stem,
           framework_path |-> framework_path,
           binary_path |-> Append(framework_path, definition.LibraryPath.stem),
           archs |-> definition.SupportedArchitectures,
           platform |-> IF "SupportedPlatform" \in DOMAIN definition
                        THEN definition.SupportedPlatform ELSE <<>>,
           is_simulator |->
             IF "SupportedPlatformVariant" \in DOMAIN definition
             THEN definition.SupportedPlatformVariant = "simulator"
             ELSE FALSE]

(* A file name is the record of its stem and its extension, which is what  *)
(* os.path.splitext separates; os.path.join appends path components.      *)
LibraryInit(root, definition) ==
  IF ~HasRequiredKeys(definition) THEN [err |-> "KeyError"]
  ELSE LET framework_path ==
             root \o <<definition.LibraryIdentifier, definition.LibraryPath>>
       IN [err |-> "None",
           name |-> definition.LibraryPath.stem,
           framework_path |-> framework_path,
           binary_path |-> Append(framework_path, definition.LibraryPath.stem),
           archs |-> definition.SupportedArchitectures,
           platform |-> definition.SupportedPlatform,
           is_simulator |-> VariantIsSimulator(definition)]

(* variant: the simulator flag is not compared *)
MatchesIgnoringSimulator(library, t) ==
  /\ t.platform = library.platform
  /\ t.arch \in library.archs

Matches(library, t) ==
  /\ t.platform = library.platform
  /\ t.arch \in library.archs
  /\ t.is_simulator = library.is_simulator

---------------------------------------------------------------------------
(* The file system *)

FileNames == {"F", "Headers", "stale"}

Absent == "absent"

EmptyTree == [n \in FileNames |-> Absent]

(* The directory of a variant inside the bundle: its binary differs from   *)
(* variant to variant, its headers do not.                                 *)
BundleTree(framework_path) ==
  [n \in FileNames |->
     IF n = "F" THEN framework_path[Len(framework_path) - 1]
     ELSE IF n = "Headers" THEN "h"
     ELSE Absent]

(* variant: an entry that exists at the destination is not overwritten *)
CopyTreeKeepExisting(src, dst) ==
  [n \in FileNames |-> IF dst[n] # Absent THEN dst[n] ELSE src[n]]

(* shutil.copytree(src, dst, dirs_exist_ok=True): the destination          *)
(* directory is kept, every entry of the source is written over the entry  *)
(* of the same name, and entries the source lacks are left alone.          *)
CopyTree(src, dst) ==
  [n \in FileNames |-> IF src[n] # Absent THEN src[n] ELSE dst[n]]

(* variant: the path is cut at its first "/" *)
XcframeworkPathFirst(plist_path) == SubSeq(plist_path, 1, 1)

(* plist_path.split("/Info.plist")[0]: the components before the first     *)
(* component Info.plist that follows a "/", the whole path if there is none*)
XcframeworkPath(plist_path) ==
  LET hits == {i \in 2..Len(plist_path) : plist_path[i] = "Info.plist"} IN
  IF hits = {} THEN plist_path
  ELSE SubSeq(plist_path, 1,
              (CHOOSE i \in hits : \A j \in hits : i <= j) - 1)

(* variant: every version the inputs carry is accepted *)
VersionSupportedAny(v) == v \in {"1.0", "2.0"}

VersionSupported(v) == v = "1.0"

---------------------------------------------------------------------------
(* Inputs *)

F_framework == [stem |-> "F", ext |-> ".framework"]

(* ios, arm64, device: no SupportedPlatformVariant *)
DefIosDevice ==
  [LibraryIdentifier |-> "ios-arm64", LibraryPath |-> F_framework,
   SupportedArchitectures |-> {S_arm64}, SupportedPlatform |-> S_ios]

(* ios, arm64 and x86_64, simulator *)
DefIosSimulator ==
  [LibraryIdentifier |-> "ios-arm64_x86_64-simulator",
   LibraryPath |-> F_framework,
   SupportedArchitectures |-> {S_arm64, S_x86_64},
   SupportedPlatform |-> S_ios, SupportedPlatformVariant |-> "simulator"]

(* ios, arm64 and arm64e, a variant that is not the simulator *)
DefIosCatalyst ==
  [LibraryIdentifier |-> "ios-arm64_arm64e-maccatalyst",
   LibraryPath |-> F_framework,
   SupportedArchitectures |-> {S_arm64, S_arm64e},
   SupportedPlatform |-> S_ios, SupportedPlatformVariant |-> "maccatalyst"]

(* tvos, arm64, device *)
DefTvosDevice ==
  [LibraryIdentifier |-> "tvos-arm64", LibraryPath |-> F_framework,
   SupportedArchitectures |-> {S_arm64}, SupportedPlatform |-> S_tvos]

(* as DefIosDevice, without LibraryPath *)
DefNoLibraryPath ==
  [LibraryIdentifier |-> "ios-arm64",
   SupportedArchitectures |-> {S_arm64}, SupportedPlatform |-> S_ios]

(* as DefIosSimulator, without SupportedPlatform *)
DefNoPlatform ==
  [LibraryIdentifier |-> "ios-arm64_x86_64-simulator",
   LibraryPath |-> F_framework,
   SupportedArchitectures |-> {S_arm64, S_x86_64},
   SupportedPlatformVariant |-> "simulator"]

Definitions ==
  {DefIosDevice, DefIosSimulator, DefIosCatalyst, DefTvosDevice,
   DefNoLibraryPath, DefNoPlatform}

LibrarySeqs == UNION {[1..n -> Definitions] : n \in 0..MaxLibs}

Versions == {"1.0", "2.0"}

Plists ==
  {[XCFrameworkFormatVersion |-> v, AvailableLibraries |-> l] :
     v \in Versions, l \in LibrarySeqs}
  \cup {[AvailableLibraries |-> l] : l \in LibrarySeqs}
  \cup {[XCFrameworkFormatVersion |-> v] : v \in Versions}

PlistFiles ==
  {[exists |-> FALSE]} \cup {[exists |-> TRUE, plist |-> d] : d \in Plists}

RECURSIVE Join(_)
(* "-".join(segs) *)
Join(segs) ==
  IF Len(segs) = 0 THEN <<>>
  ELSE IF Len(segs) = 1 THEN segs[1]
  ELSE segs[1] \o <<"-">> \o Join(Tail(segs))

MainTriples ==
  { Join(<<S_arm64, S_apple, S_ios>>),
    Join(<<S_x86_64, S_apple, S_ios11, S_simulator>>),
    Join(<<S_arm64, S_apple>>),
    Join(<<S_mips, S_apple, S_ios>>) }

Segments ==
  {S_arm64, S_x86_64, S_mips, S_apple, S_ios, S_ios11, S_linux, S_simulator}

TripleStrings ==
  {Join(segs) : segs \in UNION {[1..n -> Segments] : n \in 1..MaxSegs}}

PlistPaths ==
  { <<"Fw.xcframework", "Info.plist">>,
    <<"deps", "Fw.xcframework", "Info.plist">> }

OutputPath == "out"

OutTrees ==
  { EmptyTree,
    [EmptyTree EXCEPT !["F"] = "old"],
    [EmptyTree EXCEPT !["stale"] = "old"] }

(* sys.argv[1:] of an invocation with n positional arguments *)
Argvs ==
  {SubSeq(<<t, p, OutputPath>> \o [i \in 1..(MaxArgs - 3) |-> "extra"], 1, n) :
     t \in MainTriples, p \in PlistPaths, n \in 0..MaxArgs}

---------------------------------------------------------------------------
(* The program *)

Init ==
  /\ pc = "start"
  /\ argv \in Argvs
  /\ plistFile \in PlistFiles
  /\ out \in OutTrees
  /\ out0 = out
  /\ triple = NoTriple
  /\ found = FALSE
  /\ idx = 0
  /\ examined = 0
  /\ copies = <<>>
  /\ err = "None"
  /\ exitCode = -1
  /\ runs = 1

(* an exception or SystemExit leaves the process: non-zero exit status *)
Fail(e) ==
  /\ err' = e
  /\ exitCode' = 1
  /\ pc' = "done"

(* the __main__ block: len(sys.argv) counts the program name *)
EntryPoint ==
  /\ pc = "start"
  /\ IF Len(argv) + 1 < 4
     THEN Fail("UsageError")
     ELSE pc' = "main" /\ UNCHANGED <<err, exitCode>>
  /\ UNCHANGED <<argv, plistFile, out, out0, triple, found, idx, examined,
                 copies, runs>>

(* _main, line 85 *)
MainTriple ==
  /\ pc = "main"
  /\ triple' = TripleInit(argv[1])
  /\ IF triple'.err # "None"
     THEN Fail(triple'.err)
     ELSE pc' = "open" /\ UNCHANGED <<err, exitCode>>
  /\ UNCHANGED <<argv, plistFile, out, out0, found, idx, examined, copies,
                 runs>>

(* _main, lines 86-93: open and load the manifest, check the version,      *)
(* start the iteration over AvailableLibraries                             *)
MainOpen ==
  /\ pc = "open"
  /\ IF ~plistFile.exists
     THEN Fail("OSError") /\ UNCHANGED <<found, idx>>
     ELSE IF "XCFrameworkFormatVersion" \notin DOMAIN plistFile.plist
     THEN Fail("KeyError") /\ UNCHANGED <<found, idx>>
     ELSE IF ~VersionSupported(plistFile.plist.XCFrameworkFormatVersion)
     THEN Fail("UnsupportedManifestVersionError") /\ UNCHANGED <<found, idx>>
     ELSE IF "AvailableLibraries" \notin DOMAIN plistFile.plist
     THEN Fail("KeyError") /\ found' = FALSE /\ UNCHANGED idx
     ELSE /\ found' = FALSE
          /\ idx' = 1
          /\ pc' = "loop"
          /\ UNCHANGED <<err, exitCode>>
  /\ UNCHANGED <<argv, plistFile, out, out0, triple, examined, copies, runs>>

(* _main, lines 93-107: one iteration of the loop *)
MainLoopStep ==
  /\ pc = "loop"
  /\ idx <= Len(plistFile.plist.AvailableLibraries)
  /\ LET definition == plistFile.plist.AvailableLibraries[idx]
         library == LibraryInit(XcframeworkPath(argv[2]), definition)
     IN /\ examined' = examined + 1
        /\ IF library.err # "None"
           THEN Fail(library.err) /\ UNCHANGED <<out, found, idx, copies>>
           ELSE IF Matches(library, triple)
           THEN IF found
                THEN /\ Fail("MultipleMatchesError")
                     /\ UNCHANGED <<out, found, idx, copies>>
                ELSE /\ copies' = Append(copies,
                                    [src |-> library.framework_path,
                                     dst |-> argv[3]])
                     /\ out' = CopyTree(BundleTree(library.framework_path),
                                        out)
                     /\ found' = TRUE
                     /\ idx' = idx + 1
                     /\ UNCHANGED <<pc, err, exitCode>>
           ELSE /\ idx' = idx + 1
                /\ UNCHANGED <<pc, err, exitCode, out, found, copies>>
  /\ UNCHANGED <<argv, plistFile, out0, triple, runs>>

(* _main, lines 108-111, and the return to the __main__ block *)
MainLoopEnd ==
  /\ pc = "loop"
  /\ idx > Len(plistFile.plist.AvailableLibraries)
  /\ IF ~found
     THEN Fail("NoMatchError")
     ELSE pc' = "done" /\ exitCode' = 0 /\ UNCHANGED err
  /\ UNCHANGED <<argv, plistFile, out, out0, triple, found, idx, examined,
                 copies, runs>>

(* the build step is run again with the same arguments, the same bundle    *)
(* and the output path as the previous run left it                         *)
Rerun ==
  /\ pc = "done"
  /\ exitCode = 0
  /\ runs < MaxRuns
  /\ pc' = "start"
  /\ out0' = out
  /\ triple' = NoTriple
  /\ found' = FALSE
  /\ idx' = 0
  /\ examined' = 0
  /\ copies' = <<>>
  /\ exitCode' = -1
  /\ runs' = runs + 1
  /\ UNCHANGED <<argv, plistFile, out, err>>

Next ==
  \/ EntryPoint
  \/ MainTriple
  \/ MainOpen
  \/ MainLoopStep
  \/ MainLoopEnd
  \/ Rerun

Spec == Init /\ [][Next]_vars

(* Triple construction alone, over the triple strings of up to MaxSegs     *)
(* segments                                                                *)
InitTriple ==
  /\ pc = "main"
  /\ argv \in {<<t, <<"Fw.xcframework", "Info.plist">>, OutputPath>> :
                 t \in TripleStrings}
  /\ plistFile = [exists |-> FALSE]
  /\ out = EmptyTree
  /\ out0 = out
  /\ triple = NoTriple
  /\ found = FALSE
  /\ idx = 0
  /\ examined = 0
  /\ copies = <<>>
  /\ err = "None"
  /\ exitCode = -1
  /\ runs = 1

NextTriple == MainTriple

SpecTriple == InitTriple /\ [][NextTriple]_vars

---------------------------------------------------------------------------
(* Vocabulary of the properties, stated on the inputs of the run *)

Done == pc = "done"

TripleValid == triple.err = "None"

(* the manifest could be read and carries format version "1.0" and a list  *)
ManifestV1 ==
  /\ plistFile.exists
  /\ {"XCFrameworkFormatVersion", "AvailableLibraries"}
       \subseteq DOMAIN plistFile.plist
  /\ plistFile.plist.XCFrameworkFormatVersion = "1.0"

Libs == plistFile.plist.AvailableLibraries

Complete(d) ==
  {"LibraryIdentifier", "LibraryPath", "SupportedArchitectures",
   "SupportedPlatform"} \subseteq DOMAIN d

AllComplete == \A i \in 1..Len(Libs) : Complete(Libs[i])

EntryIsSimulator(d) ==
  /\ "SupportedPlatformVariant" \in DOMAIN d
  /\ d.SupportedPlatformVariant = "simulator"

(* the matching predicate of an entry that carries the required fields *)
EntrySatisfies(d, t) ==
  /\ Complete(d)
  /\ t.platform = d.SupportedPlatform
  /\ t.arch \in d.SupportedArchitectures
  /\ t.is_simulator = EntryIsSimulator(d)

MatchingIdx == {i \in 1..Len(Libs) : EntrySatisfies(Libs[i], triple)}

(* the directory that holds the manifest file *)
ManifestRoot == SubSeq(argv[2], 1, Len(argv[2]) - 1)

EntryDir(d) == ManifestRoot \o <<d.LibraryIdentifier, d.LibraryPath>>

(* position of the second matching entry, when there is one *)
SecondMatch ==
  CHOOSE i \in MatchingIdx : Cardinality({j \in MatchingIdx : j < i}) = 1

IncompleteIdx == {i \in 1..Len(Libs) : ~Complete(Libs[i])}

FirstIncomplete == CHOOSE i \in IncompleteIdx : \A j \in IncompleteIdx : i <= j

(* segments of a triple string, by the positions of its hyphens *)
Hyphens(s) == {i \in 1..Len(s) : s[i] = "-"}

NSegs(s) == Cardinality(Hyphens(s)) + 1

SegEnd(s, k) ==
  IF k = 0 THEN 0
  ELSE IF k = NSegs(s) THEN Len(s) + 1
  ELSE CHOOSE i \in Hyphens(s) : Cardinality({j \in Hyphens(s) : j < i}) = k - 1

Seg(s, k) == SubSeq(s, SegEnd(s, k - 1) + 1, SegEnd(s, k) - 1)

IsLowerLetter(c) == c \in LowerAscii

Reduced(token) == SelectSeq(token, IsLowerLetter)

TokenIndex(s) == IF Seg(s, 2) = S_apple THEN 3 ELSE 2

TypedTripleErrors ==
  {"MalformedTripleError", "UnsupportedArchitectureError",
   "UnsupportedPlatformError"}

Constructed == pc # "main"

---------------------------------------------------------------------------
(* Properties *)

(* C1: a run of _main that ends in a failure has not invoked the copy and  *)
(* has left the output path as it was before the run.                      *)
C1_NoPartialSuccess ==
  (Done /\ err # "None" /\ err # "UsageError")
    => (copies = <<>> /\ out = out0)

C4_NoMatch ==
  (Done /\ TripleValid /\ ManifestV1 /\ AllComplete /\ MatchingIdx = {})
    => /\ err = "NoMatchError"
       /\ exitCode = 1
       /\ examined = Len(Libs)
       /\ copies = <<>>
       /\ out = out0

C4_Witness ==
  /\ Done /\ TripleValid /\ ManifestV1 /\ AllComplete /\ MatchingIdx = {}
  /\ Len(Libs) >= 2
  /\ \E i \in 1..Len(Libs) : Libs[i] = DefTvosDevice
  /\ \E i \in 1..Len(Libs) : Libs[i] = DefIosSimulator
  /\ err = "NoMatchError"

(* C5: a triple string of 2, 3 or 4 segments whose segment 0 is an         *)
(* architecture and whose platform token reduces to a platform is          *)
(* constructed, with arch = segment 0, platform = the reduced token and    *)
(* is_simulator true iff the last segment is exactly "simulator".          *)
C5_TripleParsed ==
  LET s == argv[1] IN
  (/\ Constructed
   /\ NSegs(s) \in {2, 3, 4}
   /\ Seg(s, 1) \in _VALID_ARCHS
   /\ TokenIndex(s) <= NSegs(s)
   /\ Reduced(Seg(s, TokenIndex(s))) \in _VALID_PLATFORMS)
    => /\ triple.err = "None"
       /\ triple.arch = Seg(s, 1)
       /\ triple.platform = Reduced(Seg(s, TokenIndex(s)))
       /\ triple.is_simulator = (Seg(s, NSegs(s)) = S_simulator)

C5_Witness ==
  /\ Constructed
  /\ triple.err = "None"
  /\ NSegs(argv[1]) = 4
  /\ Seg(argv[1], 3) = S_ios11
  /\ triple.platform = S_ios
  /\ triple.is_simulator

(* C6 as stated: after a successful run the contents of the output path    *)
(* are identical to the contents of the matched variant's directory.       *)
C6_Original ==
  (Done /\ exitCode = 0)
    => out = BundleTree(EntryDir(Libs[CHOOSE i \in MatchingIdx : TRUE]))

(* C6 amended: after a successful run every entry of the matched variant's *)
(* directory is at the output path with the source's content, entries of   *)
(* the output path that the source does not contain are as they were       *)
(* before the run, and a second run with the same inputs leaves the        *)
(* output path as the first run left it.                                   *)
C6_Amended ==
  (Done /\ exitCode = 0)
    => LET src == BundleTree(EntryDir(Libs[CHOOSE i \in MatchingIdx : TRUE]))
       IN /\ \A n \in FileNames : src[n] # Absent => out[n] = src[n]
          /\ \A n \in FileNames : src[n] = Absent => out[n] = out0[n]
          /\ runs > 1 => out = out0

C6_Witness ==
  /\ Done /\ exitCode = 0
  /\ runs = 2
  /\ out["stale"] = "old"
  /\ out["F"] = "ios-arm64"

(* C7: valid triple, readable manifest whose version is not "1.0": the run *)
(* fails with UnsupportedManifestVersionError whatever the library list,   *)
(* with no entry examined and no copy invoked.                             *)
C7_UnsupportedVersion ==
  (/\ Done /\ TripleValid
   /\ plistFile.exists
   /\ "XCFrameworkFormatVersion" \in DOMAIN plistFile.plist
   /\ plistFile.plist.XCFrameworkFormatVersion # "1.0")
    => /\ err = "UnsupportedManifestVersionError"
       /\ exitCode = 1
       /\ examined = 0
       /\ copies = <<>>
       /\ out = out0

C7_Witness ==
  /\ Done /\ TripleValid
  /\ plistFile.exists
  /\ "XCFrameworkFormatVersion" \in DOMAIN plistFile.plist
  /\ plistFile.plist.XCFrameworkFormatVersion # "1.0"
  /\ "AvailableLibraries" \in DOMAIN plistFile.plist
  /\ MatchingIdx # {}
  /\ IncompleteIdx # {}
  /\ err = "UnsupportedManifestVersionError"

C9_ExactlyThreeArguments ==
  Len(argv) # 3
    => /\ pc \in {"start", "done"}
       /\ triple = NoTriple
       /\ examined = 0
       /\ copies = <<>>
       /\ Done => (err = "UsageError" /\ exitCode = 1)

(* C10: Triple construction ends with a Triple or with one of the three    *)
(* typed errors, decided by the first failing check in the order segment   *)
(* count, architecture, platform; nothing else arises for a string of 2    *)
(* to 4 segments.                                                          *)
C10_TypedOutcome ==
  LET s == argv[1] IN
  Constructed =>
    /\ triple.err \in TypedTripleErrors \cup {"None"}
    /\ (triple.err = "MalformedTripleError") <=> (NSegs(s) \notin {2, 3, 4})
    /\ (triple.err = "UnsupportedArchitectureError")
         <=> (NSegs(s) \in {2, 3, 4} /\ Seg(s, 1) \notin _VALID_ARCHS)
    /\ (/\ NSegs(s) \in {2, 3, 4}
        /\ Seg(s, 1) \in _VALID_ARCHS
        /\ TokenIndex(s) <= NSegs(s)
        /\ Reduced(Seg(s, TokenIndex(s))) \notin _VALID_PLATFORMS)
         => triple.err = "UnsupportedPlatformError"

====
